---- MODULE Spec2Model ----
(***************************************************************************)
(* A model of the ray tracer djmitche/raytracer-toy.                       *)
(*                                                                         *)
(* Real numbers (f64 in the source) are modelled as exact rationals        *)
(* <<n, d>> with d > 0 in lowest terms, and vectors with rational          *)
(* components as a record [num |-> <<x, y, z>>, den |-> d].  Inputs are    *)
(* small integer vectors; square roots are only taken of perfect squares   *)
(* (the inputs are chosen so), which keeps every value exact.              *)
(***************************************************************************)
EXTENDS Integers, Sequences, FiniteSets, TLC

VARIABLES
    pc,         \* position of the running operation
    hittables,  \* Hittables.hittables: the members, in insertion order
    ray,        \* the ray handed to hit / ray_color
    t_min,      \* the window handed to Hittables::hit
    t_max,
    idx,        \* position of the `for hittable in &self.hittables` loop
    best_t,     \* Hittables::hit's local best_t
    hit,        \* Hittables::hit's local hit (an Option)
    last,       \* the last Sphere::hit call of the scan: arguments and result
    result,     \* what Hittables::hit returned (an Option)
    depth,      \* the recursion budget the caller of ray_color holds
    color,      \* the Color ray_color returned
    tests,      \* scene intersection tests done for the current primary ray
    rgb,        \* the three u8 channel values set_pixel handed to the sink
    x,          \* render loop: column
    y,          \* render loop: kernel row (0 = bottom)
    ppm,        \* the image sink: for each (x, row) the writes it received
    arg,        \* arguments of the utility function under call
    out,        \* value the utility function returned
    p,          \* the sample drawn by a rejection-sampling loop
    iters       \* samples drawn so far by the running loop (saturating)

vars == <<pc, hittables, ray, t_min, t_max, idx, best_t, hit, last, result,
          depth, color, tests, rgb, x, y, ppm, arg, out, p, iters>>

scanVars   == <<t_min, t_max, idx, best_t, hit, last, result>>
kernelVars == <<depth, color, tests, rgb>>
renderVars == <<x, y, ppm>>
utilVars   == <<arg, out>>
sampleVars == <<p, iters>>

----------------------------------------------------------------------------
(* Bounds                                                                  *)

MaxObjects == 2     \* members a scene may hold
WIDTH      == 16    \* image width (800 in main.rs), scaled down
MaxCoord   == 1     \* utility vectors have components in -MaxCoord..MaxCoord
MaxDepth   == 2     \* recursion budgets 0..MaxDepth
Grid       == 2     \* samples are drawn from {-Grid..Grid}/Grid per axis
MaxIters   == 3     \* the iteration counter saturates here
ChanSteps  == 5     \* colour channels k/ChanSteps, k in 0..ChanSteps

----------------------------------------------------------------------------
(* Exact arithmetic                                                        *)

Abs(n) == IF n < 0 THEN -n ELSE n

Min(a, b) == IF a < b THEN a ELSE b

RECURSIVE Gcd(_, _)
Gcd(a, b) == IF b = 0 THEN a ELSE Gcd(b, a % b)

\* The rational n/d (d # 0) in lowest terms with a positive denominator.
Q(n, d) ==
    LET g == Gcd(Abs(n), Abs(d))
        s == IF d < 0 THEN -1 ELSE 1
    IN  <<(s * n) \div g, (s * d) \div g>>

QInt(n) == <<n, 1>>

QLt(a, b) == a[1] * b[2] < b[1] * a[2]
QLe(a, b) == a[1] * b[2] <= b[1] * a[2]

IsSquare(n) == n >= 0 /\ \E k \in 0..n : k * k = n

\* f64::sqrt on a perfect square.
Sqrt(n) == CHOOSE k \in 0..n : k * k = n

----------------------------------------------------------------------------
(* Vectors                                                                 *)

Vec3(a, b, c) == <<a, b, c>>

Dot(u, v) == u[1] * v[1] + u[2] * v[2] + u[3] * v[3]

VAdd(u, v) == <<u[1] + v[1], u[2] + v[2], u[3] + v[3]>>

VSub(u, v) == <<u[1] - v[1], u[2] - v[2], u[3] - v[3]>>

VMul(v, k) == <<v[1] * k, v[2] * k, v[3] * k>>

VNeg(v) == <<-v[1], -v[2], -v[3]>>

length_squared(v) == Dot(v, v)

\* A vector with rational components, num/den, in lowest terms.
QV(num, den) ==
    LET g == Gcd(Gcd(Gcd(Abs(num[1]), Abs(num[2])), Abs(num[3])), Abs(den))
        s == IF den < 0 THEN -1 ELSE 1
    IN  [num |-> <<(s * num[1]) \div g, (s * num[2]) \div g, (s * num[3]) \div g>>,
         den |-> (s * den) \div g]

QVNeg(v) == [num |-> VNeg(v.num), den |-> v.den]

\* Component k of a rational vector, as a rational.
QVAt(v, k) == Q(v.num[k], v.den)

----------------------------------------------------------------------------
(* Option                                                                  *)

None == <<>>
Some(v) == <<v>>
IsSome(o) == o # <<>>
Unwrap(o) == o[1]

----------------------------------------------------------------------------
(* Ray                                                                     *)

Ray(origin, direction) == [origin |-> origin, direction |-> direction]

\* Ray::at: origin + direction * t, for a rational t.
At(r, t) == QV(VAdd(VMul(r.origin, t[2]), VMul(r.direction, t[1])), t[2])

----------------------------------------------------------------------------
(* Hit                                                                     *)

\* front_face computed with the comparison reversed.
FrontFaceReversed(r, outward_normal) == Dot(r.direction, outward_normal.num) > 0

\* `r.direction.dot(&outward_normal) < 0.0` (the denominator is positive).
FrontFace(r, outward_normal) == Dot(r.direction, outward_normal.num) < 0

new_with_front_face(pt, t, r, outward_normal, material) ==
    LET front_face == FrontFace(r, outward_normal)
    IN  [p          |-> pt,
         normal     |-> IF ~front_face THEN QVNeg(outward_normal) ELSE outward_normal,
         t          |-> t,
         front_face |-> front_face,
         material   |-> material]

----------------------------------------------------------------------------
(* Sphere                                                                  *)

Sphere(center, radius, material) ==
    [center |-> center, radius |-> radius, material |-> material]

Oc(s, r) == VSub(r.origin, s.center)
A(r) == length_squared(r.direction)
HalfB(s, r) == Dot(Oc(s, r), r.direction)
Cq(s, r) == length_squared(Oc(s, r)) - s.radius * s.radius
Discriminant(s, r) == HalfB(s, r) * HalfB(s, r) - A(r) * Cq(s, r)

\* `t < t_min || t_max < t`
OutOfWindow(t, lo, hi) == QLt(t, lo) \/ QLt(hi, t)

\* Sphere::hit of hit.rs.
SphereHit(s, r, lo, hi) ==
    IF Discriminant(s, r) < 0 THEN None
    ELSE
        LET sqrtd == Sqrt(Discriminant(s, r))
            first == Q(-HalfB(s, r) - sqrtd, A(r))
            second == QInt(-HalfB(s, r) + sqrtd)
            t == IF OutOfWindow(first, lo, hi) THEN second ELSE first
        IN  IF OutOfWindow(first, lo, hi) /\ OutOfWindow(second, lo, hi) THEN None
            ELSE
                LET pt == At(r, t)
                    outward_normal ==
                        QV(VSub(pt.num, VMul(s.center, pt.den)), pt.den * s.radius)
                IN  Some(new_with_front_face(pt, t, r, outward_normal, s.material))

----------------------------------------------------------------------------
(* Hittables                                                               *)

\* The loop body without `best_t = h.t`: the window is never narrowed.
ScanStepKeepsWindow(st, h, r, lo) ==
    LET got == SphereHit(h, r, lo, st.best_t)
    IN  IF IsSome(got)
        THEN [hit |-> got, best_t |-> st.best_t]
        ELSE st

\* One pass of the loop body of Hittables::hit over member h, from the
\* loop state st = [hit, best_t].
ScanStep(st, h, r, lo) ==
    LET got == SphereHit(h, r, lo, st.best_t)
    IN  IF IsSome(got)
        THEN [hit |-> got, best_t |-> Unwrap(got).t]
        ELSE st

RECURSIVE ScanFrom(_, _, _, _, _)
ScanFrom(st, hs, k, r, lo) ==
    IF k > Len(hs) THEN st
    ELSE ScanFrom(ScanStep(st, hs[k], r, lo), hs, k + 1, r, lo)

\* Hittables::hit as a function of the scene, the ray and the window.
HittablesHit(hs, r, lo, hi) ==
    ScanFrom([hit |-> None, best_t |-> hi], hs, 1, r, lo).hit

----------------------------------------------------------------------------
(* Inputs                                                                  *)

Spheres ==
    { Sphere(Vec3(0, 0, -2), 1, "matte"),
      Sphere(Vec3(0, 0, -3), 2, "metal"),
      Sphere(Vec3(0, 0, -5), 1, "glass"),
      Sphere(Vec3(0, 3, -4), 1, "matte") }

Origins == { Vec3(0, 0, 0), Vec3(0, 0, -2) }

Directions == { Vec3(0, 0, -1), Vec3(0, 0, -2), Vec3(0, 3, -4), Vec3(0, 0, 1) }

Rays == { Ray(o, d) : o \in Origins, d \in Directions }

TMins == { QInt(0), QInt(1) }
TMaxs == { QInt(2), QInt(6), QInt(100) }

\* The square roots Sphere::hit takes on this ray are exact.
Exact(hs, r) ==
    \A k \in 1..Len(hs) :
        Discriminant(hs[k], r) < 0 \/ IsSquare(Discriminant(hs[k], r))

NoCall == [sphere |-> None, t_max |-> None, res |-> None]

----------------------------------------------------------------------------
(* Scene and scan: Hittables::default, Hittables::add, Hittables::hit      *)

IdleRest ==
    /\ depth = 0 /\ color = None /\ tests = 0 /\ rgb = None
    /\ x = 0 /\ y = 0 /\ ppm = <<>>
    /\ arg = None /\ out = None
    /\ p = None /\ iters = 0

Init ==
    /\ pc = "idle"
    /\ hittables = <<>>
    /\ ray = None
    /\ t_min = None /\ t_max = None
    /\ idx = 0 /\ best_t = None /\ hit = None /\ last = NoCall /\ result = None
    /\ IdleRest

Add(s) ==
    /\ pc \in {"idle", "returned"}
    /\ Len(hittables) < MaxObjects
    /\ hittables' = Append(hittables, s)
    /\ pc' = "idle"
    /\ ray' = None
    /\ t_min' = None /\ t_max' = None
    /\ idx' = 0 /\ best_t' = None /\ hit' = None /\ last' = NoCall /\ result' = None
    /\ UNCHANGED <<kernelVars, renderVars, utilVars, sampleVars>>

HitBegin(r, lo, hi) ==
    /\ pc \in {"idle", "returned"}
    /\ Exact(hittables, r)
    /\ pc' = "scan"
    /\ ray' = Some(r)
    /\ t_min' = Some(lo) /\ t_max' = Some(hi)
    /\ hit' = None
    /\ best_t' = Some(hi)
    /\ idx' = 1
    /\ last' = NoCall
    /\ result' = None
    /\ UNCHANGED <<hittables, kernelVars, renderVars, utilVars, sampleVars>>

HitStep ==
    /\ pc = "scan"
    /\ idx <= Len(hittables)
    /\ LET st == [hit |-> hit, best_t |-> Unwrap(best_t)]
           nx == ScanStep(st, hittables[idx], Unwrap(ray), Unwrap(t_min))
       IN  /\ hit' = nx.hit
           /\ best_t' = Some(nx.best_t)
           /\ last' = [sphere |-> Some(hittables[idx]),
                       t_max  |-> best_t,
                       res    |-> SphereHit(hittables[idx], Unwrap(ray),
                                            Unwrap(t_min), Unwrap(best_t))]
    /\ idx' = idx + 1
    /\ UNCHANGED <<pc, hittables, ray, t_min, t_max, result>>
    /\ UNCHANGED <<kernelVars, renderVars, utilVars, sampleVars>>

HitReturn ==
    /\ pc = "scan"
    /\ idx > Len(hittables)
    /\ result' = hit
    /\ pc' = "returned"
    /\ UNCHANGED <<hittables, ray, t_min, t_max, idx, best_t, hit, last>>
    /\ UNCHANGED <<kernelVars, renderVars, utilVars, sampleVars>>

Next ==
    \/ \E s \in Spheres : Add(s)
    \/ \E r \in Rays, lo \in TMins, hi \in TMaxs : HitBegin(r, lo, hi)
    \/ HitStep
    \/ HitReturn

Spec == Init /\ [][Next]_vars

----------------------------------------------------------------------------
(* What the claims measure the code against: the two roots of the          *)
(* ray-sphere quadratic a*t^2 + 2*half_b*t + c = 0.                        *)

SmallRoot(s, r) == Q(-HalfB(s, r) - Sqrt(Discriminant(s, r)), A(r))
LargeRoot(s, r) == Q(-HalfB(s, r) + Sqrt(Discriminant(s, r)), A(r))

\* a*t^2 + 2*half_b*t + c = 0 for t = n/d, cleared of denominators.
IsRoot(s, r, t) ==
    A(r) * t[1] * t[1] + 2 * HalfB(s, r) * t[1] * t[2] + Cq(s, r) * t[2] * t[2] = 0

\* The window (t_min, t_max].
InHalfOpen(t, lo, hi) == QLt(lo, t) /\ QLe(t, hi)

\* The window [t_min, t_max].
InClosed(t, lo, hi) == QLe(lo, t) /\ QLe(t, hi)

\* The t of an optional hit, as an Option.
TOf(o) == IF IsSome(o) THEN Some(Unwrap(o).t) ELSE None

\* The t the root policy of the specification selects.
PolicyT(s, r, lo, hi) ==
    IF Discriminant(s, r) < 0 THEN None
    ELSE IF InHalfOpen(SmallRoot(s, r), lo, hi) THEN Some(SmallRoot(s, r))
    ELSE IF InHalfOpen(LargeRoot(s, r), lo, hi) THEN Some(LargeRoot(s, r))
    ELSE None

\* Every intersection of a member of hs with the ray inside [lo, hi]:
\* pairs <<t, k>> with t a root of member k's quadratic.
Intersections(hs, r, lo, hi) ==
    { tk \in UNION { { <<SmallRoot(hs[k], r), k>>, <<LargeRoot(hs[k], r), k>> } :
                     k \in { j \in 1..Len(hs) : Discriminant(hs[j], r) >= 0 } } :
        InClosed(tk[1], lo, hi) }

\* The scene with its members in the order f (a permutation of the indices).
Reordered(hs, f) == [k \in 1..Len(hs) |-> hs[f[k]]]

Returned == pc = "returned"

\* C1: Hittables::hit returns None exactly when no member intersects the
\* ray inside the window, and otherwise the hit whose t is the minimum over
\* all intersections of all members inside the window, carrying the
\* material of a member that intersects there.
C1_GloballyClosestHit ==
    Returned =>
        LET all == Intersections(hittables, Unwrap(ray), Unwrap(t_min), Unwrap(t_max))
        IN  /\ (result = None) <=> (all = {})
            /\ IsSome(result) =>
                 /\ \A tk \in all : QLe(Unwrap(result).t, tk[1])
                 /\ \E tk \in all :
                        /\ tk[1] = Unwrap(result).t
                        /\ hittables[tk[2]].material = Unwrap(result).material

\* C2: Sphere::hit returns no hit when the discriminant is negative,
\* otherwise the smaller root when it lies in (t_min, t_max], else the
\* larger root when it lies there, else no hit; a returned t is always a
\* root of the ray-sphere quadratic.
C2_RootPolicy ==
    IsSome(last.sphere) =>
        LET s  == Unwrap(last.sphere)
            r  == Unwrap(ray)
        IN  /\ TOf(last.res) = PolicyT(s, r, Unwrap(t_min), Unwrap(last.t_max))
            /\ IsSome(last.res) => IsRoot(s, r, Unwrap(last.res).t)

\* C4: the result of Hittables::hit is the same for every insertion order
\* of the same members.
C4_OrderIrrelevant ==
    Returned =>
        \A f \in Permutations(1..Len(hittables)) :
            HittablesHit(Reordered(hittables, f), Unwrap(ray),
                         Unwrap(t_min), Unwrap(t_max)) = result

\* The scan and the function HittablesHit are the same computation.
ScanIsHittablesHit ==
    Returned =>
        result = HittablesHit(hittables, Unwrap(ray), Unwrap(t_min), Unwrap(t_max))

InScan == pc \in {"scan", "returned"}

\* C11: throughout the scan of Hittables::hit, best_t starts at t_max and
\* never increases, and whenever the held hit is Some, best_t is that
\* hit's t; so a returned hit has t_min <= t <= t_max, and a scene with no
\* members returns None.
C11_BestTTracksHit ==
    /\ [](pc = "scan" /\ idx = 1 => best_t = t_max /\ hit = None)
    /\ [](InScan => QLe(Unwrap(best_t), Unwrap(t_max)))
    /\ [](InScan /\ IsSome(hit) => Unwrap(best_t) = Unwrap(hit).t)
    /\ [][pc = "scan" /\ pc' = "scan" => QLe(Unwrap(best_t'), Unwrap(best_t))]_vars
    /\ [](Returned /\ IsSome(result) =>
            InClosed(Unwrap(result).t, Unwrap(t_min), Unwrap(t_max)))
    /\ [](Returned /\ Len(hittables) = 0 => result = None)

\* A returned scan whose last member was tested in a window an earlier hit
\* had already narrowed, and hit strictly inside it: best_t dropped twice.
C11_Witness ==
    /\ Returned
    /\ IsSome(last.res)
    /\ last.t_max # t_max
    /\ QLt(Unwrap(last.res).t, Unwrap(last.t_max))
    /\ result = last.res
    /\ Unwrap(best_t) = Unwrap(result).t

----------------------------------------------------------------------------
(* Utilities of util.rs, on vectors with rational components               *)

QAdd(a, b) == Q(a[1] * b[2] + b[1] * a[2], a[2] * b[2])
QMul(a, b) == Q(a[1] * b[1], a[2] * b[2])

\* dot of two rational vectors.
QDot(u, v) == Q(Dot(u.num, v.num), u.den * v.den)

\* 1e-8
Epsilon == Q(1, 100000000)

\* near_zero with the magnitude of each component compared.
NearZeroAbs(v) ==
    /\ QLt(Q(Abs(v[1][1]), v[1][2]), Epsilon)
    /\ QLt(Q(Abs(v[2][1]), v[2][2]), Epsilon)
    /\ QLt(Q(Abs(v[3][1]), v[3][2]), Epsilon)

\* near_zero: `v.x < 1e-8 && v.y < 1e-8 && v.z < 1e-8`, v a triple of rationals.
near_zero(v) == QLt(v[1], Epsilon) /\ QLt(v[2], Epsilon) /\ QLt(v[3], Epsilon)

\* reflect with the factor 2.0 dropped.
ReflectNoDouble(v, normal) ==
    QV(VSub(VMul(v.num, normal.den * normal.den),
            VMul(normal.num, Dot(v.num, normal.num))),
       v.den * normal.den * normal.den)

\* reflect: `v - 2.0 * v.dot(&normal) * normal`.
reflect(v, normal) ==
    QV(VSub(VMul(v.num, normal.den * normal.den),
            VMul(normal.num, 2 * Dot(v.num, normal.num))),
       v.den * normal.den * normal.den)

----------------------------------------------------------------------------
(* Inputs of the utilities                                                 *)

Coords == (-MaxCoord)..MaxCoord

\* Integer vectors of the cube.
Cube == { Vec3(a, b, c) : a \in Coords, b \in Coords, c \in Coords }

\* Component values around the 1e-8 threshold, of both signs.
SmallValues ==
    { Q(-1, 1), Q(-1, 50000000), Q(-1, 200000000), QInt(0),
      Q(1, 200000000), Q(1, 100000000), Q(1, 1) }

\* Surface normals: vectors of length one.
Normals ==
    { QV(Vec3(1, 0, 0), 1), QV(Vec3(0, -1, 0), 1), QV(Vec3(0, 0, 1), 1),
      QV(Vec3(3, 4, 0), 5), QV(Vec3(0, -4, 3), 5), QV(Vec3(1, 2, 2), 3),
      QV(Vec3(-2, 1, -2), 3) }

\* Outward normals handed to new_with_front_face: of any length.
OutwardNormals == Normals \cup { QV(v, 1) : v \in Cube }

----------------------------------------------------------------------------
(* Calls of the utilities and of Hit::new_with_front_face                  *)

\* The part every utility call shares: one call, run to completion.
UtilFrame ==
    /\ pc = "idle"
    /\ pc' = "called"
    /\ UNCHANGED <<hittables, ray, scanVars, kernelVars, renderVars, sampleVars>>

CallNearZero(a, b, c) ==
    /\ UtilFrame
    /\ arg' = Some([fn |-> "near_zero", a |-> <<a, b, c>>])
    /\ out' = Some(near_zero(<<a, b, c>>))

CallReflect(v, n) ==
    /\ UtilFrame
    /\ arg' = Some([fn |-> "reflect", a |-> [v |-> QV(v, 1), normal |-> n]])
    /\ out' = Some([once  |-> reflect(QV(v, 1), n),
                    twice |-> reflect(reflect(QV(v, 1), n), n)])

CallNewWithFrontFace(d, n) ==
    /\ UtilFrame
    /\ arg' = Some([fn |-> "new_with_front_face",
                    a  |-> [r |-> Ray(Vec3(0, 0, 0), d), outward_normal |-> n]])
    /\ out' = Some(new_with_front_face(At(Ray(Vec3(0, 0, 0), d), QInt(1)), QInt(1),
                                       Ray(Vec3(0, 0, 0), d), n, "matte"))

NextUtil ==
    \/ \E a \in SmallValues, b \in SmallValues, c \in SmallValues :
           CallNearZero(a, b, c)
    \/ \E v \in Cube, n \in Normals : CallReflect(v, n)
    \/ \E d \in Cube \ {Vec3(0, 0, 0)}, n \in OutwardNormals :
           CallNewWithFrontFace(d, n)

SpecUtil == Init /\ [][NextUtil]_vars

Called(name) == pc = "called" /\ Unwrap(arg).fn = name

\* C3: a Hit built by new_with_front_face has front_face = (dot(direction,
\* outward_normal) < 0), stores the outward normal when front_face and its
\* negation otherwise, and its stored normal points against the ray:
\* dot(direction, normal) <= 0.
C3_NormalFacesRay ==
    Called("new_with_front_face") =>
        LET d  == Unwrap(arg).a.r.direction
            on == Unwrap(arg).a.outward_normal
            h  == Unwrap(out)
        IN  /\ h.front_face = (Dot(d, on.num) < 0)
            /\ h.normal = IF h.front_face THEN on ELSE QVNeg(on)
            /\ Dot(d, h.normal.num) <= 0

\* A hit built from a back-facing outward normal: the stored normal is flipped.
C3_Witness ==
    /\ Called("new_with_front_face")
    /\ ~Unwrap(out).front_face
    /\ Unwrap(out).normal # Unwrap(arg).a.outward_normal
    /\ Dot(Unwrap(arg).a.r.direction, Unwrap(out).normal.num) < 0

\* C6: near_zero(v) is true exactly when every component of v is below
\* 1e-8 in absolute value.
C6_NearZeroIsMagnitude ==
    Called("near_zero") => (Unwrap(out) = NearZeroAbs(Unwrap(arg).a))

C6_FailingInput ==
    /\ Called("near_zero")
    /\ Unwrap(arg).a = <<Q(-1, 1), Q(-1, 1), Q(-1, 1)>>
    /\ Unwrap(out) = TRUE

----------------------------------------------------------------------------
(* main.rs: its own Hit, Sphere::hit and Hittables::hit                    *)

main_new_with_front_face(pt, t, r, outward_normal) ==
    LET front_face == Dot(r.direction, outward_normal.num) < 0
    IN  [p          |-> pt,
         normal     |-> IF front_face THEN outward_normal ELSE QVNeg(outward_normal),
         t          |-> t,
         front_face |-> front_face]

\* Sphere::hit of main.rs: the window is tested on the root before it is
\* divided by a.
MainSphereHit(s, r, lo, hi) ==
    IF Discriminant(s, r) < 0 THEN None
    ELSE
        LET sqrtd == Sqrt(Discriminant(s, r))
            first == QInt(-HalfB(s, r) - sqrtd)
            second == QInt(-HalfB(s, r) + sqrtd)
            root == IF OutOfWindow(first, lo, hi) THEN second ELSE first
        IN  IF OutOfWindow(first, lo, hi) /\ OutOfWindow(second, lo, hi) THEN None
            ELSE
                LET t == Q(root[1], A(r))
                    pt == At(r, t)
                    outward_normal ==
                        QV(VSub(pt.num, VMul(s.center, pt.den)), pt.den * s.radius)
                IN  Some(main_new_with_front_face(pt, t, r, outward_normal))

RECURSIVE MainScanFrom(_, _, _, _, _)
MainScanFrom(st, hs, k, r, lo) ==
    IF k > Len(hs) THEN st
    ELSE LET got == MainSphereHit(hs[k], r, lo, st.best_t)
         IN  MainScanFrom(IF IsSome(got)
                          THEN [hit |-> got, best_t |-> Unwrap(got).t]
                          ELSE st,
                          hs, k + 1, r, lo)

MainHittablesHit(hs, r, lo, hi) ==
    MainScanFrom([hit |-> None, best_t |-> hi], hs, 1, r, lo).hit

----------------------------------------------------------------------------
(* main.rs: ray_color, and set_pixel (the same in util.rs)                 *)

Black == <<QInt(0), QInt(0), QInt(0)>>
White == <<QInt(1), QInt(1), QInt(1)>>
Blueish == <<Q(1, 2), Q(7, 10), QInt(1)>>

\* unit_vector(&r.dir).y, for a direction of whole length.
UnitY(r) == Q(r.direction[2], Sqrt(A(r)))

\* The background: white * (1.0 - t) + blueish * t, t = 0.5 * (unit.y + 1.0).
Gradient(r) ==
    LET t == QMul(Q(1, 2), QAdd(UnitY(r), QInt(1)))
        s == QAdd(QInt(1), Q(-t[1], t[2]))
    IN  [k \in 1..3 |-> QAdd(QMul(White[k], s), QMul(Blueish[k], t))]

\* ray_color(world, r): the normal's colour on a hit, the background otherwise.
ray_color(world, r) ==
    LET h == MainHittablesHit(world, r, QInt(0), QInt(100))
    IN  IF IsSome(h)
        THEN LET n == Unwrap(h).normal
             IN  [k \in 1..3 |-> QMul(QAdd(QVAt(n, k), QInt(1)), Q(1, 2))]
        ELSE Gradient(r)

\* `as u8` that wraps modulo 256 instead of saturating.
AsU8Wrapping(v) == (v[1] \div v[2]) % 256

\* f64 `as u8`: truncate toward zero, saturate at the ends of 0..255.
AsU8(v) ==
    IF v[1] < 0 THEN 0
    ELSE IF v[1] \div v[2] > 255 THEN 255
    ELSE v[1] \div v[2]

\* The channel values set_pixel hands to Ppm::set_pixel.
set_pixel(c) ==
    <<AsU8(QMul(c[1], QInt(256))), AsU8(QMul(c[2], QInt(256))),
      AsU8(QMul(c[3], QInt(256)))>>

Channels == { Q(k, ChanSteps) : k \in 0..ChanSteps }

\* The square roots ray_color takes on this ray are exact.
ExactColor(hs, r) == Exact(hs, r) /\ IsSquare(A(r))

\* One primary ray: the caller holds a depth budget d; ray_color of main.rs
\* takes only the world and the ray, and tests the scene once.
TraceRay(r, d) ==
    /\ pc = "idle"
    /\ ExactColor(hittables, r)
    /\ pc' = "colored"
    /\ ray' = Some(r)
    /\ depth' = d
    /\ tests' = 1
    /\ color' = Some(ray_color(hittables, r))
    /\ UNCHANGED <<hittables, scanVars, rgb, renderVars, utilVars, sampleVars>>

\* set_pixel on the colour ray_color returned.
SetPixelTraced ==
    /\ pc = "colored"
    /\ pc' = "stored"
    /\ rgb' = Some(set_pixel(Unwrap(color)))
    /\ UNCHANGED <<hittables, ray, scanVars, depth, color, tests,
                   renderVars, utilVars, sampleVars>>

\* set_pixel on a colour with channels in [0, 1].
SetPixel(a, b, c) ==
    /\ pc = "idle"
    /\ pc' = "stored"
    /\ color' = Some(<<a, b, c>>)
    /\ rgb' = Some(set_pixel(<<a, b, c>>))
    /\ UNCHANGED <<hittables, ray, scanVars, depth, tests,
                   renderVars, utilVars, sampleVars>>

NextKernel ==
    \/ \E s \in Spheres : Add(s)
    \/ \E r \in Rays, d \in 0..MaxDepth : TraceRay(r, d)
    \/ SetPixelTraced
    \/ \E a \in Channels, b \in Channels, c \in Channels : SetPixel(a, b, c)

SpecKernel == Init /\ [][NextKernel]_vars

InUnit(c) == QLe(QInt(0), c) /\ QLe(c, QInt(1))

\* C5: ray_color returns pure black whenever the depth budget is 0, and one
\* primary ray causes at most depth scene intersection tests.
C5_BlackAtDepthZero ==
    pc = "colored" =>
        /\ depth = 0 => color = Some(Black)
        /\ tests <= depth

\* C7: set_pixel turns each channel c in [0,1] into floor(c * 256) kept
\* within 0..255; a channel of exactly 1.0 yields 255.
C7_ChannelStaysInU8 ==
    pc = "stored" =>
        \A k \in 1..3 :
            LET c == Unwrap(color)[k]
                v == Unwrap(rgb)[k]
            IN  InUnit(c) =>
                    /\ v \in 0..255
                    /\ v = Min(255, (c[1] * 256) \div c[2])
                    /\ (c = QInt(1)) => v = 255

\* A background colour (blue channel exactly 1.0) stored as 255, beside a
\* channel that is truncated.
C7_Witness ==
    /\ pc = "stored"
    /\ IsSome(ray)
    /\ Unwrap(color)[3] = QInt(1)
    /\ Unwrap(rgb)[3] = 255
    /\ \E k \in 1..3 : (Unwrap(color)[k][1] * 256) % Unwrap(color)[k][2] # 0

----------------------------------------------------------------------------
(* main.rs: the render loop of main                                        *)

\* (WIDTH as f64 / ASPECT_RATIO) as usize, ASPECT_RATIO = 16.0 / 9.0
HEIGHT == (WIDTH * 9) \div 16

\* The two spheres main adds, in units of one half.
MainWorld ==
    << Sphere(Vec3(0, 0, -2), 1, "none"), Sphere(Vec3(2, -201, -2), 200, "none") >>

\* A row index handed to the sink without inversion.
RowNotInverted(row) == row

\* `HEIGHT - y - 1`: the sink's row for kernel row y.
SinkRow(row) == HEIGHT - row - 1

\* Ppm::new, and the scene set up before the loops.
RenderBegin ==
    /\ pc = "idle"
    /\ pc' = "render"
    /\ ppm' = <<>>
    /\ hittables' = MainWorld
    /\ x' = 0 /\ y' = 0
    /\ UNCHANGED <<ray, scanVars, kernelVars, utilVars, sampleVars>>

\* One pass of the inner loop body.  The colour is ray_color of the ray
\* through u = x / WIDTH, v = y / HEIGHT; the sink's record keeps (x, y) for it.
RenderPixel ==
    /\ pc = "render"
    /\ y < HEIGHT /\ x < WIDTH
    /\ ppm' = Append(ppm, [x |-> x, y |-> SinkRow(y), color |-> <<x, y>>])
    /\ IF x + 1 < WIDTH
       THEN x' = x + 1 /\ y' = y
       ELSE x' = 0 /\ y' = y + 1
    /\ UNCHANGED <<pc, hittables, ray, scanVars, kernelVars, utilVars, sampleVars>>

\* The loops are over: ppm.write.
RenderWrite ==
    /\ pc = "render"
    /\ y = HEIGHT
    /\ pc' = "done"
    /\ UNCHANGED <<hittables, ray, scanVars, kernelVars, renderVars, utilVars, sampleVars>>

NextRender == RenderBegin \/ RenderPixel \/ RenderWrite

SpecRender == Init /\ [][NextRender]_vars

WritesTo(a, b) == { k \in 1..Len(ppm) : ppm[k].x = a /\ ppm[k].y = b }

\* C8: the colour computed for kernel row y and column x is written to sink
\* pixel (x, HEIGHT - 1 - y); no write falls outside the image; when the
\* loop ends every pixel of the image has been written exactly once.
C8_RowsInverted ==
    /\ \A k \in 1..Len(ppm) :
          /\ ppm[k].x = ppm[k].color[1]
          /\ ppm[k].y = HEIGHT - 1 - ppm[k].color[2]
          /\ ppm[k].x \in 0..(WIDTH - 1)
          /\ ppm[k].y \in 0..(HEIGHT - 1)
    /\ pc = "done" =>
          \A a \in 0..(WIDTH - 1), b \in 0..(HEIGHT - 1) :
              Cardinality(WritesTo(a, b)) = 1

\* The loop has ended: the first write went to the bottom row of the sink
\* and the last one to its top row.
C8_Witness ==
    /\ pc = "done"
    /\ Len(ppm) = WIDTH * HEIGHT
    /\ ppm[1].y = HEIGHT - 1 /\ ppm[1].color = <<0, 0>>
    /\ ppm[Len(ppm)].y = 0 /\ ppm[Len(ppm)].color = <<WIDTH - 1, HEIGHT - 1>>

----------------------------------------------------------------------------
(* util.rs: the rejection-sampling loops                                   *)

\* uniform() is j / (2 * Grid) for j in Uniforms: a value of [0, 1).
Uniforms == 0..(2 * Grid - 1)

\* `uniform() * 2.0 - 1.0`, as a numerator over Grid.
Centered(j) == j - Grid

\* The acceptance test with <= in place of <.
InsideOrOn(pt) == QLe(QDot(pt, pt), QInt(1))

\* `length_squared(&p) < 1.0`
Inside(pt) == QLt(QDot(pt, pt), QInt(1))

Bump(n) == Min(n + 1, MaxIters)

CallInUnitSphere ==
    /\ pc = "idle"
    /\ pc' = "in_unit_sphere"
    /\ p' = None /\ iters' = 0
    /\ UNCHANGED <<hittables, ray, scanVars, kernelVars, renderVars, utilVars>>

CallInUnitDisc ==
    /\ pc = "idle"
    /\ pc' = "in_unit_disc"
    /\ p' = None /\ iters' = 0
    /\ UNCHANGED <<hittables, ray, scanVars, kernelVars, renderVars, utilVars>>

\* The points `Point3::new(uniform() * 2.0 - 1.0, ...)` can be: the cube.
CubeSamples ==
    { QV(Vec3(Centered(a), Centered(b), Centered(c)), Grid) :
        a \in Uniforms, b \in Uniforms, c \in Uniforms }

\* The points of the square with z = 0.0.
SquareSamples ==
    { QV(Vec3(Centered(a), Centered(b), 0), Grid) : a \in Uniforms, b \in Uniforms }

\* One pass of the loop of random_in_unit_sphere.
SphereDraw(pt) ==
    /\ pc = "in_unit_sphere"
    /\ p' = Some(pt)
    /\ iters' = Bump(iters)
    /\ pc' = IF Inside(pt) THEN "returned_sphere" ELSE "in_unit_sphere"
    /\ UNCHANGED <<hittables, ray, scanVars, kernelVars, renderVars, utilVars>>

\* One pass of the loop of random_in_unit_disc.
DiscDraw(pt) ==
    /\ pc = "in_unit_disc"
    /\ p' = Some(pt)
    /\ iters' = Bump(iters)
    /\ pc' = IF Inside(pt) THEN "returned_disc" ELSE "in_unit_disc"
    /\ UNCHANGED <<hittables, ray, scanVars, kernelVars, renderVars, utilVars>>

NextSample ==
    \/ CallInUnitSphere
    \/ CallInUnitDisc
    \/ \E pt \in CubeSamples : SphereDraw(pt)
    \/ \E pt \in SquareSamples : DiscDraw(pt)

\* The samples that pass `length_squared(&p) < 1.0`, as returned values.
SphereAccepted == { Some(pt) : pt \in { q \in CubeSamples : Inside(q) } }

DiscAccepted == { Some(pt) : pt \in { q \in SquareSamples : Inside(q) } }

\* A pass whose sample the loop accepts: the step that leaves the loop.
SphereAccept ==
    /\ pc = "in_unit_sphere" /\ pc' = "returned_sphere"
    /\ p' \in SphereAccepted
    /\ iters' = Bump(iters)
    /\ UNCHANGED <<hittables, ray, scanVars, kernelVars, renderVars, utilVars>>

DiscAccept ==
    /\ pc = "in_unit_disc" /\ pc' = "returned_disc"
    /\ p' \in DiscAccepted
    /\ iters' = Bump(iters)
    /\ UNCHANGED <<hittables, ray, scanVars, kernelVars, renderVars, utilVars>>

\* Fair sampling: an acceptable draw, possible at every pass, eventually occurs.
SpecSample ==
    Init /\ [][NextSample]_vars /\ WF_vars(SphereAccept) /\ WF_vars(DiscAccept)

InLoop == pc \in {"in_unit_sphere", "in_unit_disc"}

LenSqBelowOne(pt) ==
    pt.num[1] * pt.num[1] + pt.num[2] * pt.num[2] + pt.num[3] * pt.num[3]
        < pt.den * pt.den

\* C10: the loops have no iteration cap (a further draw is possible after
\* any number of passes), repeat on every rejected sample, return only
\* points of length-squared < 1 (the disc's with z = 0), and eventually
\* return under fair sampling.
C10_RejectionSampling ==
    /\ [](pc = "returned_sphere" => LenSqBelowOne(Unwrap(p)))
    /\ [](pc = "returned_disc" => LenSqBelowOne(Unwrap(p)) /\ Unwrap(p).num[3] = 0)
    /\ [](InLoop => ENABLED (NextSample /\ InLoop'))
    /\ [][InLoop /\ ~LenSqBelowOne(Unwrap(p')) => pc' = pc]_vars
    /\ [][InLoop /\ LenSqBelowOne(Unwrap(p')) => ~InLoop']_vars
    /\ (pc = "in_unit_sphere") ~> (pc = "returned_sphere")
    /\ (pc = "in_unit_disc") ~> (pc = "returned_disc")

\* A loop that returned after its counter saturated: at least MaxIters - 1
\* samples were rejected first.
C10_Witness ==
    /\ pc = "returned_sphere"
    /\ iters = MaxIters
    /\ LenSqBelowOne(Unwrap(p))

====
